---------------------------- MODULE Spec2Model ----------------------------
(***************************************************************************)
(* Model of the checkpoint benchmark of Starmind-Zero:                     *)
(*   src/benchmarks/benchmark.py  load_prompts, discover_checkpoints,      *)
(*                                run_benchmark, main                      *)
(*   src/inference.py             PicoLMInference.__init__ (model load),   *)
(*                                generate_completion, interactive_mode,   *)
(*                                build_checkpoint_path, main              *)
(*                                                                         *)
(* Specifications:                                                         *)
(*   Spec         a benchmark run, with interruption                       *)
(*   SpecLive     a benchmark run that is left to finish                   *)
(*   SpecSink     a benchmark run with buffered writes, a killed process   *)
(*                and a file already at the report's path                  *)
(*   SpecScan     discover_checkpoints on every listing                    *)
(*   SpecPrompts  load_prompts on every prompt source                      *)
(*   SpecCli      inference.py main on every command line                  *)
(*                                                                         *)
(* Strings that the code parses or cuts (directory names, prompts and      *)
(* generated text) are sequences of one-character strings, so that glob    *)
(* matching, split('_'), int(), slicing and strip() are computed as the    *)
(* code computes them.                                                     *)
(***************************************************************************)
EXTENDS Integers, Sequences, FiniteSets, TLC

VARIABLES
    rootExists,         \* os.path.exists(model_path), benchmark.py:81
    listing,            \* the entries of model_path, in directory (glob) order
    source,             \* the state of the prompts file read by load_prompts
    pc,                 \* control position of main / run_benchmark
    benchmark_prompts,  \* run_benchmark local, benchmark.py:118
    checkpoints,        \* run_benchmark local, benchmark.py:128
    i,                  \* index of the checkpoint loop, benchmark.py:158
    j,                  \* index of the prompt loop, benchmark.py:174
    inference,          \* checkpoint whose handle the local `inference` is bound to (0: unbound)
    constructing,       \* checkpoint whose model PicoLMInference.__init__ has built so far (0: none)
    report,             \* what has been written to f, one token per f.write group
    durable,            \* how many tokens of report have reached the file on disk
    fileOpen,           \* inside `with open(report_file, 'w') as f`
    ret,                \* what run_benchmark handed to main: a return value or a raised exception
    exitCode,           \* what main returned (-1: main has not returned)
    interrupted,        \* a KeyboardInterrupt has been delivered
    log,                \* the calls made to the model loader and the decoding engine, and their outcomes
    existing,           \* what the file at the report's path held before the run opened it
    args,               \* inference.py main: the parsed command line, inference.py:237
    files,              \* inference.py main: what exists under each candidate checkpoint path
    checkpoint_path,    \* inference.py main local, inference.py:240-250
    call,               \* the parameters of the running call of generate_completion, inference.py:105-113
    inputs,             \* generate_completion local: the tokenized prompt, stood for by its decoded text, inference.py:129
    request,            \* the keyword arguments that reached model.generate, inference.py:138-147
    generated_text,     \* generate_completion local, inference.py:150
    outcome             \* how the last call of generate_completion ended: its return value or a raise

vars == <<rootExists, listing, source, pc, benchmark_prompts, checkpoints, i, j,
          inference, constructing, report, durable, fileOpen, ret, exitCode,
          interrupted, log, existing, args, files, checkpoint_path, call, inputs, request,
          generated_text, outcome>>

\* the state of the single-shot entry point, which the benchmark leaves alone
cliVars == <<args, files, checkpoint_path, call, inputs, request, generated_text,
             outcome>>

-----------------------------------------------------------------------------
(* Bounds of the model.                                                    *)

\* longest suffix after "step_" of a directory entry name (scanner inputs)
MaxSuffixLen == 2
\* most entries in the checkpoint root (scanner inputs)
MaxEntries == 2
\* most entries of a prompt source (loader inputs)
MaxSourceLen == 3
\* most checkpoint directories in a benchmark run
MaxCheckpoints == 2
\* most prompts in a benchmark run
MaxPrompts == 2

-----------------------------------------------------------------------------
(* Directory entry names and their parsing: discover_checkpoints.          *)

Digits == {"0", "1", "2"}

SuffixChars == Digits \cup {"-", "_", "x"}

\* the literal part of the glob pattern "step_*", benchmark.py:85
StepPrefix == <<"s", "t", "e", "p", "_">>

\* fnmatch of a basename against "step_*", benchmark.py:85-86
GlobMatches(name) ==
    /\ Len(name) >= Len(StepPrefix)
    /\ SubSeq(name, 1, Len(StepPrefix)) = StepPrefix

\* str.split('_'), benchmark.py:93: the pieces between the underscores
Split(s) ==
    LET us == {k \in 1..Len(s) : s[k] = "_"}
        n == Cardinality(us)
        \* the position of the m-th underscore
        cut(m) == CHOOSE k \in us : Cardinality({u \in us : u < k}) = m - 1
    IN  [m \in 1..(n + 1) |->
            SubSeq(s, IF m = 1 THEN 1 ELSE cut(m - 1) + 1,
                      IF m = n + 1 THEN Len(s) ELSE cut(m) - 1)]

DigitVal(c) == CASE c = "0" -> 0 [] c = "1" -> 1 [] c = "2" -> 2

\* the value of a string of decimal digits
DigitsValue(ds) ==
    LET v[k \in 0..Len(ds)] == IF k = 0 THEN 0 ELSE 10 * v[k - 1] + DigitVal(ds[k])
    IN  v[Len(ds)]

\* Python's int(str) on the characters of the model: an optional sign, then
\* one or more digits; anything else is a ValueError. benchmark.py:93
IntParse(s) ==
    LET neg  == Len(s) >= 1 /\ s[1] = "-"
        body == IF neg THEN SubSeq(s, 2, Len(s)) ELSE s
    IN  IF body # <<>> /\ \A k \in 1..Len(body) : body[k] \in Digits
        THEN [ok |-> TRUE, val |-> IF neg THEN 0 - DigitsValue(body) ELSE DigitsValue(body)]
        ELSE [ok |-> FALSE, val |-> 0]

\* int(os.path.basename(checkpoint_dir).split('_')[1]) under
\* `except (IndexError, ValueError)`, benchmark.py:92-96
StepNum(name) ==
    LET pieces == Split(name)
    IN  IF Len(pieces) < 2 THEN [ok |-> FALSE, val |-> 0]
        ELSE IntParse(pieces[2])

\* the loop that keeps the directories whose step number parses, as
\* (step_num, checkpoint_dir) pairs, benchmark.py:84-96; a path is stood for
\* by its basename
ValidCheckpoints(entries) ==
    LET kept == SelectSeq(entries, LAMBDA e :
                    GlobMatches(e.name) /\ e.isdir /\ StepNum(e.name).ok)
    IN  [k \in 1..Len(kept) |->
            [step |-> StepNum(kept[k].name).val, path |-> kept[k].name]]

\* list.sort(key=lambda x: x[0]), benchmark.py:99. The sort is stable: an
\* element comes after the elements with a smaller step number and after
\* those with the same step number that stood before it.
SortByStep(es) ==
    LET rank(k) == Cardinality({m \in 1..Len(es) :
                        es[m].step < es[k].step \/ (es[m].step = es[k].step /\ m < k)}) + 1
    IN  [r \in 1..Len(es) |-> es[CHOOSE k \in 1..Len(es) : rank(k) = r]]

\* discover_checkpoints, benchmark.py:68-100. Each stage is bound to its value
\* (v: valid_checkpoints, s: the sorted list) so that it is computed once.
discover_checkpoints(exists, entries) ==
    IF ~exists
    THEN [raised |-> "FileNotFoundError", paths |-> <<>>]
    ELSE CHOOSE r \in
            {[raised |-> "none", paths |-> [k \in 1..Len(s) |-> s[k].path]] :
                s \in {SortByStep(v) : v \in {ValidCheckpoints(entries)}}} : TRUE

-----------------------------------------------------------------------------
(* The prompts file and load_prompts.                                      *)

\* the fallback prompt set, benchmark.py:38, 53, 61, 65
Fallback == <<"Hello, how are you?">>

Texts == {"a", "b"}

\* a JSON string
JStr(s) == [type |-> "str", hasText |-> FALSE, text |-> s]

\* a JSON object, with or without a "text" member
JObj(has, s) == [type |-> "obj", hasText |-> has, text |-> s]

\* str(p) of an entry without a "text" member, benchmark.py:47
StrOf(p) == IF p.type = "str" THEN p.text ELSE "{}"

\* the exceptions of the model that `except Exception` catches
ExceptionClasses == {"JSONDecodeError", "OSError", "TypeError", "AttributeError",
                     "FileNotFoundError", "ImportError", "RuntimeError"}

\* load_prompts_try as it would be if the legacy form were read back to front
load_prompts_try_Reordered(src) ==
    CASE src.kind = "unreadable" -> [exc |-> "OSError", prompts |-> <<>>]
      [] src.kind = "badjson" -> [exc |-> "JSONDecodeError", prompts |-> <<>>]
      [] src.kind = "legacy" ->
            IF \E k \in 1..Len(src.items) : src.items[k].type # "obj"
            THEN [exc |-> "AttributeError", prompts |-> <<>>]
            ELSE [exc |-> "none",
                  prompts |-> [k \in 1..Len(src.items) |->
                                  LET e == src.items[Len(src.items) + 1 - k]
                                  IN  IF e.hasText THEN e.text ELSE StrOf(e)]]
      [] src.kind = "legacy_noniter" -> [exc |-> "TypeError", prompts |-> <<>>]
      [] src.kind = "list" ->
            [exc |-> "none", prompts |-> [k \in 1..Len(src.items) |-> src.items[k].text]]
      [] OTHER -> [exc |-> "none", prompts |-> Fallback]

\* the body of the try block of load_prompts, benchmark.py:41-56:
\* what it returns, or the exception it raises
load_prompts_try(src) ==
    CASE src.kind = "unreadable" -> [exc |-> "OSError", prompts |-> <<>>]
      [] src.kind = "badjson" -> [exc |-> "JSONDecodeError", prompts |-> <<>>]
      [] src.kind = "legacy" ->
            \* [p.get("text", str(p)) for p in prompts["benchmark_prompts"]]
            IF \E k \in 1..Len(src.items) : src.items[k].type # "obj"
            THEN [exc |-> "AttributeError", prompts |-> <<>>]
            ELSE [exc |-> "none",
                  prompts |-> [k \in 1..Len(src.items) |->
                                  IF src.items[k].hasText THEN src.items[k].text
                                  ELSE StrOf(src.items[k])]]
      [] src.kind = "legacy_noniter" -> [exc |-> "TypeError", prompts |-> <<>>]
      [] src.kind = "list" ->
            [exc |-> "none", prompts |-> [k \in 1..Len(src.items) |-> src.items[k].text]]
      [] OTHER -> [exc |-> "none", prompts |-> Fallback]

\* load_prompts, benchmark.py:20-65
load_prompts(src) ==
    IF src.kind = "missing"
    THEN [raised |-> "none", prompts |-> Fallback]
    ELSE LET r == load_prompts_try(src)
         IN  IF r.exc = "none" THEN [raised |-> "none", prompts |-> r.prompts]
             ELSE IF r.exc = "JSONDecodeError" THEN [raised |-> "none", prompts |-> Fallback]
             ELSE IF r.exc \in ExceptionClasses THEN [raised |-> "none", prompts |-> Fallback]
             ELSE [raised |-> r.exc, prompts |-> <<>>]

-----------------------------------------------------------------------------
(* Inputs.                                                                 *)

SeqsUpTo(S, n) == UNION {[1..m -> S] : m \in 0..n}

DistinctNames(es) == \A a, b \in 1..Len(es) : a # b => es[a].name # es[b].name

Suffixes == SeqsUpTo(SuffixChars, MaxSuffixLen)

\* names that the glob pattern does not match
OtherNames == {<<"s", "t", "e", "p">>, <<"l", "o", "g", "s">>}

Names == {StepPrefix \o s : s \in Suffixes} \cup OtherNames

Entries == [name : Names, isdir : BOOLEAN]

Listings == {es \in SeqsUpTo(Entries, MaxEntries) : DistinctNames(es)}

\* kinds of prompt source that carry no entries: the file is missing, cannot
\* be read, is not JSON, is a JSON scalar, is an object without
\* "benchmark_prompts", or has a "benchmark_prompts" that is not iterable
PlainSources == {[kind |-> k, items |-> <<>>] :
                    k \in {"missing", "unreadable", "badjson", "scalar",
                           "dict_nokey", "legacy_noniter"}}

FlatSources == {[kind |-> "list", items |-> its] :
                    its \in SeqsUpTo({JStr(t) : t \in Texts}, MaxSourceLen)}

LegacyEntries == {JObj(TRUE, t) : t \in Texts} \cup {JObj(FALSE, ""), JStr("a")}

LegacySources == {[kind |-> "legacy", items |-> its] :
                    its \in SeqsUpTo(LegacyEntries, MaxSourceLen)}

Sources == PlainSources \cup FlatSources \cup LegacySources

-----------------------------------------------------------------------------
(* The values of the single-shot entry point: inference.py main.           *)

\* an argparse option that was not given: None
NoStr == [some |-> FALSE, val |-> ""]

NoInt == [some |-> FALSE, val |-> 0]

NoText == [some |-> FALSE, val |-> <<>>]

\* an argparse option that was given
Given(v) == [some |-> TRUE, val |-> v]

\* Python's truth value of an optional string: None and "" are false,
\* inference.py:242, 245
Truthy(o) == o.some /\ o.val # ""

\* the same of a string kept as its characters, inference.py:276
TruthyText(o) == o.some /\ o.val # <<>>

\* checkpoint_path = None, inference.py:240
NoPath == [kind |-> "none", base |-> "", model |-> "", step |-> 0]

\* checkpoint_path = args.checkpoint, inference.py:244
ExplicitPath(p) == [kind |-> "explicit", base |-> p, model |-> "", step |-> 0]

\* build_checkpoint_path, inference.py:192-205
build_checkpoint_path(model_name, step_number) ==
    [kind |-> "built", base |-> "pico-train/runs", model |-> model_name,
     step |-> step_number]

\* what os.path.exists finds of a checkpoint directory, its config.json and its
\* model.safetensors, inference.py:253-266
FileStates == {f \in [dir : BOOLEAN, config : BOOLEAN, weights : BOOLEAN] :
                  ~f.dir => (~f.config /\ ~f.weights)}

\* temperatures, in tenths: --temperature 0, the default 0.7 and the 0.8 of
\* interactive_mode, inference.py:109, 180, 233
DefaultTemperature == 7

InteractiveTemperature == 8

\* the default --max-length and the max_length of interactive_mode,
\* inference.py:108, 179, 232
DefaultMaxLength == 100

InteractiveMaxLength == 150

\* the default top_p of generate_completion, in tenths, inference.py:110
DefaultTopP == 9

\* no call of generate_completion is running
NoCall == [prompt |-> <<>>, max_length |-> 0, temperature |-> 0, top_p |-> 0,
           do_sample |-> FALSE]

\* nothing has reached model.generate
NoRequest == [max_length |-> 0, temperature |-> 0, top_p |-> 0, do_sample |-> FALSE]

\* generate_completion has not ended yet
NoOutcome == [kind |-> "none", text |-> <<>>, reason |-> ""]

\* Python's str.strip() on the characters of the model, inference.py:153
Strip(s) ==
    LET solid == {k \in 1..Len(s) : s[k] # " "}
    IN  IF solid = {} THEN <<>>
        ELSE SubSeq(s, CHOOSE k \in solid : \A m \in solid : k <= m,
                       CHOOSE k \in solid : \A m \in solid : k >= m)

\* generated_text[len(prompt):].strip(), inference.py:153
Completion(text, prompt) == Strip(SubSeq(text, Len(prompt) + 1, Len(text)))

\* a tokenizer that normalises white space: a run of spaces decodes as one space
Collapse(s) ==
    LET keep == {k \in 1..Len(s) : ~(s[k] = " " /\ k > 1 /\ s[k - 1] = " ")}
        nth(m) == CHOOSE k \in keep : Cardinality({u \in keep : u < k}) = m - 1
    IN  [m \in 1..Cardinality(keep) |-> s[nth(m)]]

\* the tokenizers a checkpoint may ship (AutoTokenizer.from_pretrained,
\* inference.py:97): one that decodes a prompt to itself, one that normalises
Tokenizers == {"exact", "normalising"}

\* tokenizer.decode(tokenizer(text)): the text as the tokenizer renders it,
\* inference.py:129-134, 150
Rendered(tok, text) == IF tok = "exact" THEN text ELSE Collapse(text)

\* the single-shot entry point has not run
CliIdle ==
    /\ args = [checkpoint |-> NoStr, model_name |-> NoStr, step_number |-> NoInt,
               prompt |-> NoText, max_length |-> DefaultMaxLength,
               temperature |-> DefaultTemperature, interactive |-> FALSE]
    /\ files = [k \in {"explicit", "built"} |->
                   [dir |-> FALSE, config |-> FALSE, weights |-> FALSE]]
    /\ checkpoint_path = NoPath
    /\ call = NoCall
    /\ inputs = <<>>
    /\ request = NoRequest
    /\ generated_text = <<>>
    /\ outcome = NoOutcome

-----------------------------------------------------------------------------
(* discover_checkpoints and load_prompts applied to every input.           *)

\* the benchmark has not run
RunIdle == /\ benchmark_prompts = <<>> /\ checkpoints = <<>> /\ i = 0 /\ j = 0
           /\ inference = 0 /\ constructing = 0 /\ report = <<>> /\ durable = 0
           /\ fileOpen = FALSE /\ ret = "none" /\ exitCode = -1
           /\ interrupted = FALSE /\ log = <<>>

Idle == RunIdle /\ CliIdle

InitScan ==
    /\ rootExists \in BOOLEAN
    /\ listing \in Listings
    /\ ~rootExists => listing = <<>>
    /\ source = [kind |-> "missing", items |-> <<>>]
    /\ pc = "scan"
    /\ existing = <<>>
    /\ Idle

\* a call of discover_checkpoints(model_name)
ScanCall ==
    /\ pc = "scan"
    /\ \E r \in {discover_checkpoints(rootExists, listing)} :
          /\ checkpoints' = r.paths
          /\ ret' = r.raised
    /\ pc' = "scanned"
    /\ UNCHANGED <<rootExists, listing, source, benchmark_prompts, i, j, inference,
                   constructing, report, durable, fileOpen, exitCode, interrupted, log>>
    /\ UNCHANGED <<existing, cliVars>>

NextScan == ScanCall

SpecScan == InitScan /\ [][NextScan]_vars

InitPrompts ==
    /\ rootExists = FALSE
    /\ listing = <<>>
    /\ source \in Sources
    /\ pc = "prompts"
    /\ existing = <<>>
    /\ Idle

\* a call of load_prompts(prompts_file)
PromptsCall ==
    /\ pc = "prompts"
    /\ \E r \in {load_prompts(source)} :
          /\ benchmark_prompts' = r.prompts
          /\ ret' = r.raised
    /\ pc' = "prompts_loaded"
    /\ UNCHANGED <<rootExists, listing, source, checkpoints, i, j, inference,
                   constructing, report, durable, fileOpen, exitCode, interrupted, log>>
    /\ UNCHANGED <<existing, cliVars>>

NextPrompts == PromptsCall

SpecPrompts == InitPrompts /\ [][NextPrompts]_vars

-----------------------------------------------------------------------------
(* A benchmark run: main and run_benchmark.                                *)

\* one f.write group of the report
Tok(t, c, k, n, x) == [t |-> t, ckpt |-> c, idx |-> k, n |-> n, text |-> x]

\* one call to, or outcome of, the model loader or the decoding engine
Ev(op, c, p) == [op |-> op, ckpt |-> c, prompt |-> p]

RunEntries ==
    {[name |-> StepPrefix \o <<c>>, isdir |-> TRUE] : c \in Digits \cup {"x"}}
        \cup {[name |-> StepPrefix \o <<"1">>, isdir |-> FALSE]}

RunListings == {es \in SeqsUpTo(RunEntries, MaxCheckpoints) : DistinctNames(es)}

RunSources ==
    {[kind |-> k, items |-> <<>>] : k \in {"missing", "badjson"}}
        \cup {[kind |-> "list",
               items |-> [k \in 1..n |-> JStr(IF k % 2 = 1 THEN "a" ELSE "b")]] :
                 n \in 0..MaxPrompts}
        \cup {[kind |-> "legacy", items |-> <<JObj(TRUE, "a")>>]}

Init ==
    /\ rootExists \in BOOLEAN
    /\ listing \in RunListings
    /\ ~rootExists => listing = <<>>
    /\ source \in RunSources
    /\ pc = "main"
    /\ existing = <<>>
    /\ Idle

\* what run_benchmark does with the result of load_prompts: None when no
\* prompt was loaded, benchmark.py:118-121
AfterPrompts(r) ==
    IF r.raised # "none" THEN [ret |-> "Exception", pc |-> "main_ret"]
    ELSE IF r.prompts = <<>> THEN [ret |-> "None", pc |-> "main_ret"]
    ELSE [ret |-> "none", pc |-> "makedirs"]

\* benchmark.py:118-121
LoadPrompts ==
    /\ pc = "main"
    /\ \E r \in {load_prompts(source)} :
          /\ benchmark_prompts' = r.prompts
          /\ ret' = AfterPrompts(r).ret
          /\ pc' = AfterPrompts(r).pc
    /\ UNCHANGED <<rootExists, listing, source, checkpoints, i, j, inference,
                   constructing, report, durable, fileOpen, exitCode, interrupted, log>>
    /\ UNCHANGED <<existing, cliVars>>

\* os.makedirs(output_dir, exist_ok=True) succeeds, benchmark.py:124
MakeDirsOk ==
    /\ pc = "makedirs"
    /\ pc' = "discover"
    /\ UNCHANGED <<rootExists, listing, source, benchmark_prompts, checkpoints, i, j,
                   inference, constructing, report, durable, fileOpen, ret, exitCode,
                   interrupted, log>>
    /\ UNCHANGED <<existing, cliVars>>

\* os.makedirs raises OSError, which run_benchmark does not catch, benchmark.py:124
MakeDirsFail ==
    /\ pc = "makedirs"
    /\ ret' = "Exception"
    /\ pc' = "main_ret"
    /\ UNCHANGED <<rootExists, listing, source, benchmark_prompts, checkpoints, i, j,
                   inference, constructing, report, durable, fileOpen, exitCode,
                   interrupted, log>>
    /\ UNCHANGED <<existing, cliVars>>

\* what run_benchmark does with the result of discover_checkpoints: None when
\* the root is missing or no checkpoint is valid, benchmark.py:127-136
AfterDiscover(r) ==
    IF r.raised = "FileNotFoundError" THEN [ret |-> "None", pc |-> "main_ret"]
    ELSE IF r.raised # "none" THEN [ret |-> "Exception", pc |-> "main_ret"]
    ELSE IF r.paths = <<>> THEN [ret |-> "None", pc |-> "main_ret"]
    ELSE [ret |-> "none", pc |-> "import"]

\* benchmark.py:127-136
Discover ==
    /\ pc = "discover"
    /\ \E r \in {discover_checkpoints(rootExists, listing)} :
          /\ checkpoints' = r.paths
          /\ ret' = AfterDiscover(r).ret
          /\ pc' = AfterDiscover(r).pc
    /\ UNCHANGED <<rootExists, listing, source, benchmark_prompts, i, j, inference,
                   constructing, report, durable, fileOpen, exitCode, interrupted, log>>
    /\ UNCHANGED <<existing, cliVars>>

\* `from inference import PicoLMInference` succeeds, benchmark.py:143-144
ImportOk ==
    /\ pc = "import"
    /\ pc' = "open"
    /\ UNCHANGED <<rootExists, listing, source, benchmark_prompts, checkpoints, i, j,
                   inference, constructing, report, durable, fileOpen, ret, exitCode,
                   interrupted, log>>
    /\ UNCHANGED <<existing, cliVars>>

\* ImportFail as it would be with the report opened before the import: the
\* header is written and the run then returns None
ImportFail_AfterOpen ==
    /\ pc = "import"
    /\ report' = <<Tok("header", <<>>, Len(checkpoints), Len(benchmark_prompts), "")>>
    /\ durable' = 1
    /\ ret' = "None"
    /\ pc' = "main_ret"
    /\ UNCHANGED <<rootExists, listing, source, benchmark_prompts, checkpoints, i, j,
                   inference, constructing, fileOpen, exitCode, interrupted, log>>
    /\ UNCHANGED <<existing, cliVars>>

\* the import raises ImportError, benchmark.py:145-147
ImportFail ==
    /\ pc = "import"
    /\ ret' = "None"
    /\ pc' = "main_ret"
    /\ UNCHANGED <<rootExists, listing, source, benchmark_prompts, checkpoints, i, j,
                   inference, constructing, report, durable, fileOpen, exitCode,
                   interrupted, log>>
    /\ UNCHANGED <<existing, cliVars>>

\* open(report_file, 'w') and the header, benchmark.py:150-155
OpenReport ==
    /\ pc = "open"
    /\ fileOpen' = TRUE
    /\ report' = <<Tok("header", <<>>, Len(checkpoints), Len(benchmark_prompts), "")>>
    /\ durable' = 0
    /\ i' = 1
    /\ pc' = "ckpt"
    /\ UNCHANGED <<rootExists, listing, source, benchmark_prompts, checkpoints, j,
                   inference, constructing, ret, exitCode, interrupted, log>>
    /\ UNCHANGED <<existing, cliVars>>

\* the head of a checkpoint iteration up to the call of the loader,
\* benchmark.py:158-168
CkptBegin ==
    /\ pc = "ckpt"
    /\ i <= Len(checkpoints)
    /\ report' = Append(report, Tok("section", checkpoints[i], i, 0, ""))
    /\ log' = Append(log, Ev("load", i, 0))
    /\ pc' = "load_config"
    /\ UNCHANGED <<rootExists, listing, source, benchmark_prompts, checkpoints, i, j,
                   inference, constructing, durable, fileOpen, ret, exitCode, interrupted>>
    /\ UNCHANGED <<existing, cliVars>>

\* LoadFailed as it would be with the try around the checkpoint loop instead of
\* inside it: the first load failure ends the loop
LoadFailed_Break(reason) ==
    /\ report' = Append(report, Tok("ckpt_error", checkpoints[i], i, 0, reason))
    /\ log' = Append(log, Ev("load_fail", i, 0))
    /\ constructing' = 0
    /\ i' = Len(checkpoints) + 1
    /\ pc' = "ckpt"
    /\ UNCHANGED <<rootExists, listing, source, benchmark_prompts, checkpoints, j,
                   inference, durable, fileOpen, ret, exitCode, interrupted>>
    /\ UNCHANGED <<existing, cliVars>>

\* LoadFailed as it would be if a load failure made run_benchmark give up
LoadFailed_Fatal(reason) ==
    /\ report' = Append(report, Tok("ckpt_error", checkpoints[i], i, 0, reason))
    /\ log' = Append(log, Ev("load_fail", i, 0))
    /\ constructing' = 0
    /\ inference' = 0
    /\ fileOpen' = FALSE
    /\ durable' = Len(report')
    /\ ret' = "None"
    /\ pc' = "main_ret"
    /\ UNCHANGED <<rootExists, listing, source, benchmark_prompts, checkpoints, i, j,
                   exitCode, interrupted>>
    /\ UNCHANGED <<existing, cliVars>>

\* the except clause of the checkpoint iteration, benchmark.py:196-198
LoadFailed(reason) ==
    /\ report' = Append(report, Tok("ckpt_error", checkpoints[i], i, 0, reason))
    /\ log' = Append(log, Ev("load_fail", i, 0))
    /\ constructing' = 0
    /\ pc' = "ckpt_end"
    /\ UNCHANGED <<rootExists, listing, source, benchmark_prompts, checkpoints, i, j,
                   inference, durable, fileOpen, ret, exitCode, interrupted>>
    /\ UNCHANGED <<existing, cliVars>>

\* PicoLMInference.__init__ raises before the model exists, inference.py:57-66
LoadConfigMissing ==
    /\ pc = "load_config"
    /\ LoadFailed("Config file not found")

\* the config is read and the model instance created, inference.py:60-74
LoadModelCreated ==
    /\ pc = "load_config"
    /\ constructing' = i
    /\ pc' = "load_weights"
    /\ UNCHANGED <<rootExists, listing, source, benchmark_prompts, checkpoints, i, j,
                   inference, report, durable, fileOpen, ret, exitCode, interrupted, log>>
    /\ UNCHANGED <<existing, cliVars>>

\* inference.py:78-88
LoadWeightsMissing ==
    /\ pc = "load_weights"
    /\ LoadFailed("Model weights file not found")

\* load_state_dict, .to(device) or the tokenizer raises, inference.py:82-101
LoadLateFail ==
    /\ pc = "load_weights"
    /\ LoadFailed("RuntimeError")

\* __init__ returns and `inference` is rebound, benchmark.py:168-171
LoadOk ==
    /\ pc = "load_weights"
    /\ inference' = i
    /\ constructing' = 0
    /\ report' = Append(report, Tok("load_time", checkpoints[i], i, 0, ""))
    /\ log' = Append(log, Ev("load_ok", i, 0))
    /\ j' = 1
    /\ pc' = "prompt"
    /\ UNCHANGED <<rootExists, listing, source, benchmark_prompts, checkpoints, i,
                   durable, fileOpen, ret, exitCode, interrupted>>
    /\ UNCHANGED <<existing, cliVars>>

\* the head of a prompt iteration up to the call of the engine, benchmark.py:174-182
PromptBegin ==
    /\ pc = "prompt"
    /\ j <= Len(benchmark_prompts)
    /\ report' = Append(report, Tok("prompt", checkpoints[i], j, 0, benchmark_prompts[j]))
    /\ log' = Append(log, Ev("generate", i, j))
    /\ pc' = "generate"
    /\ UNCHANGED <<rootExists, listing, source, benchmark_prompts, checkpoints, i, j,
                   inference, constructing, durable, fileOpen, ret, exitCode, interrupted>>
    /\ UNCHANGED <<existing, cliVars>>

\* the prompt loop is exhausted, benchmark.py:174
PromptsDone ==
    /\ pc = "prompt"
    /\ j > Len(benchmark_prompts)
    /\ pc' = "ckpt_end"
    /\ UNCHANGED <<rootExists, listing, source, benchmark_prompts, checkpoints, i, j,
                   inference, constructing, report, durable, fileOpen, ret, exitCode,
                   interrupted, log>>
    /\ UNCHANGED <<existing, cliVars>>

\* generate_completion returns, benchmark.py:182-190
GenOk ==
    /\ pc = "generate"
    /\ report' = Append(report, Tok("response", checkpoints[i], j, 0, "completion"))
    /\ log' = Append(log, Ev("gen_ok", i, j))
    /\ j' = j + 1
    /\ pc' = "prompt"
    /\ UNCHANGED <<rootExists, listing, source, benchmark_prompts, checkpoints, i,
                   inference, constructing, durable, fileOpen, ret, exitCode, interrupted>>
    /\ UNCHANGED <<existing, cliVars>>

\* GenFail as it would be with the try around the prompt loop instead of inside
\* it: a failed prompt ends the prompts of its checkpoint
GenFail_Abort ==
    /\ pc = "generate"
    /\ report' = Append(report, Tok("error", checkpoints[i], j, 0, "RuntimeError"))
    /\ log' = Append(log, Ev("gen_fail", i, j))
    /\ pc' = "ckpt_end"
    /\ UNCHANGED <<rootExists, listing, source, benchmark_prompts, checkpoints, i, j,
                   inference, constructing, durable, fileOpen, ret, exitCode, interrupted>>
    /\ UNCHANGED <<existing, cliVars>>

\* generate_completion raises, benchmark.py:192-194
GenFail ==
    /\ pc = "generate"
    /\ report' = Append(report, Tok("error", checkpoints[i], j, 0, "RuntimeError"))
    /\ log' = Append(log, Ev("gen_fail", i, j))
    /\ j' = j + 1
    /\ pc' = "prompt"
    /\ UNCHANGED <<rootExists, listing, source, benchmark_prompts, checkpoints, i,
                   inference, constructing, durable, fileOpen, ret, exitCode, interrupted>>
    /\ UNCHANGED <<existing, cliVars>>

\* CkptEnd as it would be with `return report_file` indented into the
\* checkpoint loop: the run returns after its first checkpoint
CkptEnd_Return ==
    /\ pc = "ckpt_end"
    /\ report' = Append(report, Tok("sep", checkpoints[i], i, 0, ""))
    /\ i' = i + 1
    /\ fileOpen' = FALSE
    /\ durable' = Len(report')
    /\ inference' = 0
    /\ ret' = "report_file"
    /\ pc' = "main_ret"
    /\ UNCHANGED <<rootExists, listing, source, benchmark_prompts, checkpoints, j,
                   constructing, exitCode, interrupted, log>>
    /\ UNCHANGED <<existing, cliVars>>

\* the separator that ends a checkpoint section, benchmark.py:200
CkptEnd ==
    /\ pc = "ckpt_end"
    /\ report' = Append(report, Tok("sep", checkpoints[i], i, 0, ""))
    /\ i' = i + 1
    /\ pc' = "ckpt"
    /\ UNCHANGED <<rootExists, listing, source, benchmark_prompts, checkpoints, j,
                   inference, constructing, durable, fileOpen, ret, exitCode,
                   interrupted, log>>
    /\ UNCHANGED <<existing, cliVars>>

\* the checkpoint loop is exhausted: the with block closes f, which flushes it,
\* and run_benchmark returns report_file, benchmark.py:158, 150, 202-203
RunReturn ==
    /\ pc = "ckpt"
    /\ i > Len(checkpoints)
    /\ fileOpen' = FALSE
    /\ durable' = Len(report)
    /\ inference' = 0
    /\ ret' = "report_file"
    /\ pc' = "main_ret"
    /\ UNCHANGED <<rootExists, listing, source, benchmark_prompts, checkpoints, i, j,
                   constructing, report, exitCode, interrupted, log>>
    /\ UNCHANGED <<existing, cliVars>>

\* MainReturn as it would be without the test of report_file: a run that
\* returned None exits 0 as well
MainReturn_NoneIsZero ==
    /\ pc = "main_ret"
    /\ exitCode' = IF ret \in {"report_file", "None"} THEN 0 ELSE 1
    /\ pc' = "exit"
    /\ UNCHANGED <<rootExists, listing, source, benchmark_prompts, checkpoints, i, j,
                   inference, constructing, report, durable, fileOpen, ret,
                   interrupted, log>>
    /\ UNCHANGED <<existing, cliVars>>

\* main's exit code, benchmark.py:227-242
MainReturn ==
    /\ pc = "main_ret"
    /\ exitCode' = IF ret = "report_file" THEN 0 ELSE 1
    /\ pc' = "exit"
    /\ UNCHANGED <<rootExists, listing, source, benchmark_prompts, checkpoints, i, j,
                   inference, constructing, report, durable, fileOpen, ret,
                   interrupted, log>>
    /\ UNCHANGED <<existing, cliVars>>

\* where a KeyboardInterrupt finds the run inside main's try block,
\* benchmark.py:227-231
Interruptible ==
    \/ pc \in {"main", "makedirs", "discover", "import", "open", "ckpt", "load_config",
               "load_weights", "prompt", "generate", "ckpt_end"}
    \/ pc = "main_ret" /\ ret = "report_file"

\* Interrupt as it would be with the report opened without a with block:
\* nothing closes f, and what it buffered never reaches the file
Interrupt_NoClose ==
    /\ Interruptible
    /\ interrupted' = TRUE
    /\ inference' = 0
    /\ constructing' = 0
    /\ ret' = "KeyboardInterrupt"
    /\ pc' = "main_ret"
    /\ UNCHANGED <<rootExists, listing, source, benchmark_prompts, checkpoints, i, j,
                   report, durable, fileOpen, exitCode, log>>
    /\ UNCHANGED <<existing, cliVars>>

\* a KeyboardInterrupt: no `except Exception` catches it, the with block closes
\* f on the way out, and main returns 1, benchmark.py:150, 192, 196, 235-237
Interrupt ==
    /\ Interruptible
    /\ interrupted' = TRUE
    /\ fileOpen' = FALSE
    /\ durable' = IF fileOpen THEN Len(report) ELSE durable
    /\ inference' = 0
    /\ constructing' = 0
    /\ ret' = "KeyboardInterrupt"
    /\ pc' = "main_ret"
    /\ UNCHANGED <<rootExists, listing, source, benchmark_prompts, checkpoints, i, j,
                   report, exitCode, log>>
    /\ UNCHANGED <<existing, cliVars>>

\* the steps of the program
NextRun ==
    \/ LoadPrompts \/ MakeDirsOk \/ MakeDirsFail \/ Discover \/ ImportOk \/ ImportFail
    \/ OpenReport \/ CkptBegin \/ LoadConfigMissing \/ LoadModelCreated
    \/ LoadWeightsMissing \/ LoadLateFail \/ LoadOk \/ PromptBegin \/ PromptsDone
    \/ GenOk \/ GenFail \/ CkptEnd \/ RunReturn \/ MainReturn

Next == NextRun \/ Interrupt

Spec == Init /\ [][Next]_vars

\* every call returns or raises, and the single thread keeps running
SpecLive == Init /\ [][NextRun]_vars /\ WF_vars(NextRun)

-----------------------------------------------------------------------------
(* The report file: buffered writes, a killed process, and a file that is  *)
(* already at the report's path.                                           *)

\* a report that an earlier run left at the same path: the name carries the
\* model name and the local time to the second, benchmark.py:139-140
OldReport ==
    <<Tok("header", <<>>, 1, 1, ""),
      Tok("section", StepPrefix \o <<"0">>, 1, 0, ""),
      Tok("ckpt_error", StepPrefix \o <<"0">>, 1, 0, "Config file not found"),
      Tok("sep", StepPrefix \o <<"0">>, 1, 0, "")>>

InitSink ==
    /\ rootExists = TRUE
    /\ listing \in RunListings
    /\ source \in {src \in RunSources : src.kind = "list" /\ src.items # <<>>}
    /\ pc = "main"
    /\ existing \in {<<>>, OldReport}
    /\ Idle

\* the buffer of f fills up and is written to the file: f is opened with the
\* default buffering and never flushed by run_benchmark, benchmark.py:150-200
Flush ==
    /\ fileOpen
    /\ durable < Len(report)
    /\ durable' = Len(report)
    /\ UNCHANGED <<rootExists, listing, source, pc, benchmark_prompts, checkpoints, i, j,
                   inference, constructing, report, fileOpen, ret, exitCode,
                   interrupted, log>>
    /\ UNCHANGED <<existing, cliVars>>

\* the process is killed (SIGKILL, out of memory, power loss): no handler and
\* no with block runs, and what f buffered is lost
Crash ==
    /\ pc \notin {"exit", "crashed"}
    /\ pc' = "crashed"
    /\ fileOpen' = FALSE
    /\ inference' = 0
    /\ constructing' = 0
    /\ UNCHANGED <<rootExists, listing, source, benchmark_prompts, checkpoints, i, j,
                   report, durable, ret, exitCode, interrupted, log>>
    /\ UNCHANGED <<existing, cliVars>>

NextSink == Next \/ Flush \/ Crash

SpecSink == InitSink /\ [][NextSink]_vars

-----------------------------------------------------------------------------
(* The single-shot entry point: inference.py main, interactive_mode and    *)
(* generate_completion.                                                    *)

\* the state of the benchmark, which the entry point leaves alone
runVars == <<rootExists, listing, source, benchmark_prompts, checkpoints, i, j,
             constructing, report, durable, fileOpen, ret, interrupted, existing>>

\* prompts: one that every tokenizer renders as it is, one with a run of spaces
CliPrompts == {<<"a">>, <<"a", " ", " ", "a">>}

\* what the model may append to the prompt
Continuations == {<<"x">>, <<" ", "x">>, <<"x", "y">>}

\* the command lines, inference.py:223-237
CliArgs ==
    [checkpoint : {NoStr, Given(""), Given("ckpt")},
     model_name : {NoStr, Given(""), Given("m")},
     step_number : {NoInt, Given(0), Given(1)},
     prompt : {NoText, Given(<<>>)} \cup {Given(p) : p \in CliPrompts},
     max_length : {DefaultMaxLength},
     temperature : {0, DefaultTemperature},
     interactive : BOOLEAN]

InitCli ==
    /\ rootExists = FALSE
    /\ listing = <<>>
    /\ source = [kind |-> "missing", items |-> <<>>]
    /\ existing = <<>>
    /\ RunIdle
    /\ pc = "cli"
    /\ args \in CliArgs
    /\ files \in [{"explicit", "built"} -> FileStates]
    /\ checkpoint_path = NoPath
    /\ call = NoCall
    /\ inputs = <<>>
    /\ request = NoRequest
    /\ generated_text = <<>>
    /\ outcome = NoOutcome

\* CliChoosePath as it would be with the two branches in the other order: a
\* model name and step number win over --checkpoint
CliChoosePath_NameFirst ==
    /\ pc = "cli"
    /\ IF Truthy(args.model_name) /\ args.step_number.some
       THEN /\ checkpoint_path' =
                  build_checkpoint_path(args.model_name.val, args.step_number.val)
            /\ pc' = "validate"
            /\ exitCode' = exitCode
       ELSE IF Truthy(args.checkpoint)
       THEN /\ checkpoint_path' = ExplicitPath(args.checkpoint.val)
            /\ pc' = "validate"
            /\ exitCode' = exitCode
       ELSE /\ checkpoint_path' = NoPath
            /\ pc' = "exit"
            /\ exitCode' = 2
    /\ UNCHANGED <<inference, log, args, files, call, inputs, request, generated_text,
                   outcome>>
    /\ UNCHANGED runVars

\* main determines the checkpoint path; parser.error leaves with status 2,
\* inference.py:239-250
CliChoosePath ==
    /\ pc = "cli"
    /\ IF Truthy(args.checkpoint)
       THEN /\ checkpoint_path' = ExplicitPath(args.checkpoint.val)
            /\ pc' = "validate"
            /\ exitCode' = exitCode
       ELSE IF Truthy(args.model_name) /\ args.step_number.some
       THEN /\ checkpoint_path' =
                  build_checkpoint_path(args.model_name.val, args.step_number.val)
            /\ pc' = "validate"
            /\ exitCode' = exitCode
       ELSE /\ checkpoint_path' = NoPath
            /\ pc' = "exit"
            /\ exitCode' = 2
    /\ UNCHANGED <<inference, log, args, files, call, inputs, request, generated_text,
                   outcome>>
    /\ UNCHANGED runVars

\* the three existence tests, inference.py:252-268
CliValidate ==
    /\ pc = "validate"
    /\ LET f == files[checkpoint_path.kind]
       IN  IF f.dir /\ f.config /\ f.weights
           THEN pc' = "cli_load" /\ exitCode' = exitCode
           ELSE pc' = "exit" /\ exitCode' = 1
    /\ UNCHANGED <<inference, log, args, files, checkpoint_path, call, inputs, request,
                   generated_text, outcome>>
    /\ UNCHANGED runVars

\* a call of generate_completion begins, inference.py:105-113
StartCall(prompt, max_length, temperature) ==
    /\ call' = [prompt |-> prompt, max_length |-> max_length,
                temperature |-> temperature, top_p |-> DefaultTopP, do_sample |-> TRUE]
    /\ inputs' = <<>>
    /\ request' = NoRequest
    /\ generated_text' = <<>>
    /\ outcome' = NoOutcome
    /\ pc' = "tokenize"

\* main is in interactive mode: --interactive, or no prompt, inference.py:274-288
Interactive == args.interactive \/ ~TruthyText(args.prompt)

\* PicoLMInference(...) raises and main returns 1, inference.py:272, 290-294
CliLoadFail ==
    /\ pc = "cli_load"
    /\ log' = log \o <<Ev("load", 1, 0), Ev("load_fail", 1, 0)>>
    /\ exitCode' = 1
    /\ pc' = "exit"
    /\ UNCHANGED <<inference, args, files, checkpoint_path, call, inputs, request,
                   generated_text, outcome>>
    /\ UNCHANGED runVars

\* PicoLMInference(...) returns and main dispatches on the mode,
\* inference.py:272-288
CliLoadOk ==
    /\ pc = "cli_load"
    /\ log' = log \o <<Ev("load", 1, 0), Ev("load_ok", 1, 0)>>
    /\ inference' = 1
    /\ IF Interactive
       THEN /\ pc' = "interactive"
            /\ UNCHANGED <<call, inputs, request, generated_text, outcome>>
       ELSE StartCall(args.prompt.val, args.max_length, args.temperature)
    /\ UNCHANGED <<exitCode, args, files, checkpoint_path>>
    /\ UNCHANGED runVars

\* interactive_mode reads a line and asks for its completion, inference.py:164-181
InteractiveTurn ==
    /\ pc = "interactive"
    /\ \E user_input \in CliPrompts :
          StartCall(user_input, InteractiveMaxLength, InteractiveTemperature)
    /\ UNCHANGED <<inference, exitCode, log, args, files, checkpoint_path>>
    /\ UNCHANGED runVars

\* 'quit' or a KeyboardInterrupt ends interactive_mode and main returns 0,
\* inference.py:166-168, 185-187, 296
InteractiveQuit ==
    /\ pc = "interactive"
    /\ exitCode' = 0
    /\ pc' = "exit"
    /\ UNCHANGED <<inference, log, args, files, checkpoint_path, call, inputs, request,
                   generated_text, outcome>>
    /\ UNCHANGED runVars

\* the tokenizer encodes the prompt, inference.py:129-134
Tokenize ==
    /\ pc = "tokenize"
    /\ \E tok \in Tokenizers : inputs' = Rendered(tok, call.prompt)
    /\ pc' = "generate_call"
    /\ UNCHANGED <<inference, exitCode, log, args, files, checkpoint_path, call, request,
                   generated_text, outcome>>
    /\ UNCHANGED runVars

\* the tokenizer raises: nothing in generate_completion catches it,
\* inference.py:129-134
TokenizeRaise ==
    /\ pc = "tokenize"
    /\ outcome' = [kind |-> "raised", text |-> <<>>, reason |-> "tokenizer error"]
    /\ pc' = "gen_raised"
    /\ UNCHANGED <<inference, exitCode, log, args, files, checkpoint_path, call, inputs,
                   request, generated_text>>
    /\ UNCHANGED runVars

\* the keyword arguments of model.generate, inference.py:138-147
GenerateArgs ==
    [max_length |-> call.max_length, temperature |-> call.temperature,
     top_p |-> call.top_p, do_sample |-> call.do_sample]

\* model.generate returns and its output is decoded, inference.py:137-150
Generate ==
    /\ pc = "generate_call"
    /\ request' = GenerateArgs
    /\ \E continuation \in Continuations : generated_text' = inputs \o continuation
    /\ pc' = "decoded"
    /\ UNCHANGED <<inference, exitCode, log, args, files, checkpoint_path, call, inputs,
                   outcome>>
    /\ UNCHANGED runVars

\* model.generate raises: nothing in generate_completion catches it,
\* inference.py:137-147
GenerateRaise ==
    /\ pc = "generate_call"
    /\ request' = GenerateArgs
    /\ outcome' = [kind |-> "raised", text |-> <<>>, reason |-> "forward pass error"]
    /\ pc' = "gen_raised"
    /\ UNCHANGED <<inference, exitCode, log, args, files, checkpoint_path, call, inputs,
                   generated_text>>
    /\ UNCHANGED runVars

\* generate_completion cuts the prompt off and returns, inference.py:152-154
ReturnCompletion ==
    /\ pc = "decoded"
    /\ outcome' = [kind |-> "returned",
                   text |-> Completion(generated_text, call.prompt), reason |-> ""]
    /\ pc' = "gen_returned"
    /\ UNCHANGED <<inference, exitCode, log, args, files, checkpoint_path, call, inputs,
                   request, generated_text>>
    /\ UNCHANGED runVars

\* main prints the completion and returns 0, inference.py:283-284, 296
ShotDone ==
    /\ pc = "gen_returned"
    /\ ~Interactive
    /\ exitCode' = 0
    /\ pc' = "exit"
    /\ UNCHANGED <<inference, log, args, files, checkpoint_path, call, inputs, request,
                   generated_text, outcome>>
    /\ UNCHANGED runVars

\* the exception of generate_completion reaches main's except clause,
\* inference.py:290-294
ShotError ==
    /\ pc = "gen_raised"
    /\ ~Interactive
    /\ exitCode' = 1
    /\ pc' = "exit"
    /\ UNCHANGED <<inference, log, args, files, checkpoint_path, call, inputs, request,
                   generated_text, outcome>>
    /\ UNCHANGED runVars

\* interactive_mode prints the response, or the error its except clause
\* caught, and reads on, inference.py:183, 188-189
InteractiveResume ==
    /\ pc \in {"gen_returned", "gen_raised"}
    /\ Interactive
    /\ pc' = "interactive"
    /\ UNCHANGED <<inference, exitCode, log, args, files, checkpoint_path, call, inputs,
                   request, generated_text, outcome>>
    /\ UNCHANGED runVars

NextCli ==
    \/ CliChoosePath \/ CliValidate \/ CliLoadFail \/ CliLoadOk
    \/ InteractiveTurn \/ InteractiveQuit \/ Tokenize \/ TokenizeRaise
    \/ Generate \/ GenerateRaise \/ ReturnCompletion
    \/ ShotDone \/ ShotError \/ InteractiveResume

SpecCli == InitCli /\ [][NextCli]_vars

-----------------------------------------------------------------------------
(* Reading a report, the log and the inputs back.                          *)

\* the content of the report file on disk
DiskContent == SubSeq(report, 1, durable)

\* the checkpoint sections of a report: each starts at a "section" token and
\* runs to the token before the next one
RECURSIVE SplitSections(_)
SplitSections(r) ==
    IF r = <<>> THEN <<>>
    ELSE LET rest == Tail(r)
             stops == {k \in 1..Len(rest) : rest[k].t = "section"}
             nxt == IF stops = {} THEN Len(rest) + 1
                    ELSE CHOOSE k \in stops : \A m \in stops : k <= m
         IN  (IF Head(r).t = "section"
              THEN << <<Head(r)>> \o SubSeq(rest, 1, nxt - 1) >>
              ELSE <<>>)
             \o SplitSections(SubSeq(rest, nxt, Len(rest)))

PromptSubsections(sec) == SelectSeq(sec, LAMBDA tok : tok.t = "prompt")

Logged(op, c, p) == \E k \in 1..Len(log) : log[k] = Ev(op, c, p)

LoadFailedAt(c) == Logged("load_fail", c, 0)

LoadedAt(c) == Logged("load_ok", c, 0)

NumLoads == Cardinality({k \in 1..Len(log) : log[k].op = "load"})

\* the suffix of a directory name after "step_"
SuffixOf(name) == SubSeq(name, Len(StepPrefix) + 1, Len(name))

\* the model handles that are resident: the one `inference` is bound to and
\* the one under construction
Resident == {inference, constructing} \ {0}

\* run_benchmark returned None or raised an error: the run ended without a report
Fatal == ret \in {"None", "Exception"}

\* a complete report is on disk: header, one closed section per checkpoint
ReportComplete ==
    /\ ~fileOpen
    /\ durable >= 1
    /\ DiskContent[1].t = "header"
    /\ LET secs == SplitSections(DiskContent)
       IN  /\ Len(secs) = Len(checkpoints)
           /\ \A k \in 1..Len(secs) : secs[k][Len(secs[k])].t = "sep"

-----------------------------------------------------------------------------
(* The scanner and the prompt loader.                                      *)

\* C4: the output of discover_checkpoints is sorted strictly ascending by
\* step number and holds no entry whose suffix after step_ is not an integer.
C4_SortedStrictlyAndParsable ==
    (pc = "scanned" /\ ret = "none") =>
        /\ \A a, b \in 1..Len(checkpoints) :
              a < b => StepNum(checkpoints[a]).val < StepNum(checkpoints[b]).val
        /\ \A k \in 1..Len(checkpoints) : IntParse(SuffixOf(checkpoints[k])).ok

\* C5: discover_checkpoints returns exactly the directories named step_<N>
\* with N a non-negative integer, each once; everything else is skipped
\* without an error.
C5_ExactlyNonNegativeStepDirs ==
    (pc = "scanned" /\ rootExists) =>
        /\ ret = "none"
        /\ {checkpoints[k] : k \in 1..Len(checkpoints)} =
              {listing[k].name : k \in {m \in 1..Len(listing) :
                    /\ listing[m].isdir
                    /\ GlobMatches(listing[m].name)
                    /\ IntParse(SuffixOf(listing[m].name)).ok
                    /\ IntParse(SuffixOf(listing[m].name)).val >= 0}}
        /\ Cardinality({checkpoints[k] : k \in 1..Len(checkpoints)}) = Len(checkpoints)

\* C6: a prompt source that is missing, unparsable, of unrecognized structure
\* or empty gives exactly the fallback set, load_prompts never raises, and the
\* prompt set it returns is never empty.
C6_FallbackAndNonEmpty ==
    pc = "prompts_loaded" =>
        /\ ret = "none"
        /\ benchmark_prompts # <<>>
        /\ (source.kind \notin {"list", "legacy"} \/ source.items = <<>>)
              => benchmark_prompts = Fallback

\* C16: from the legacy form, in which every entry carries a text field,
\* load_prompts returns the entries' text fields, as many and in the same
\* order; from a flat list it returns the elements unchanged, in order.
C16_OrderPreserved ==
    pc = "prompts_loaded" =>
        /\ (/\ source.kind = "legacy"
            /\ \A k \in 1..Len(source.items) :
                  source.items[k].type = "obj" /\ source.items[k].hasText) =>
              /\ Len(benchmark_prompts) = Len(source.items)
              /\ \A k \in 1..Len(source.items) :
                    benchmark_prompts[k] = source.items[k].text
        /\ source.kind = "list" =>
              /\ Len(benchmark_prompts) = Len(source.items)
              /\ \A k \in 1..Len(source.items) :
                    benchmark_prompts[k] = source.items[k].text

\* a legacy source of three entries with text fields, the first two different
C16_Witness ==
    /\ pc = "prompts_loaded"
    /\ source.kind = "legacy"
    /\ Len(source.items) = 3
    /\ \A k \in 1..3 : source.items[k].type = "obj" /\ source.items[k].hasText
    /\ source.items[1].text # source.items[2].text
    /\ benchmark_prompts = <<source.items[1].text, source.items[2].text,
                             source.items[3].text>>

-----------------------------------------------------------------------------
(* The orchestrator.                                                       *)

\* C1: a run that returns has written exactly one section per discovered
\* checkpoint, in scan order (ascending step); a section whose load failed
\* records the load error and has no prompt subsection, and no generation was
\* attempted for it.
C1_OneSectionPerCheckpoint ==
    ret = "report_file" =>
        LET secs == SplitSections(DiskContent)
        IN  /\ Len(secs) = Len(checkpoints)
            /\ \A k \in 1..Len(secs) : secs[k][1].ckpt = checkpoints[k]
            /\ \A a, b \in 1..Len(checkpoints) :
                  a < b => StepNum(checkpoints[a]).val <= StepNum(checkpoints[b]).val
            /\ \A k \in 1..Len(secs) :
                  LoadFailedAt(k) =>
                      /\ \E m \in 1..Len(secs[k]) :
                            secs[k][m].t = "ckpt_error" /\ secs[k][m].text # ""
                      /\ PromptSubsections(secs[k]) = <<>>
                      /\ \A p \in 1..Len(benchmark_prompts) : ~Logged("generate", k, p)

\* a run of two checkpoints returned, the first failed to load, the second loaded
C1_Witness ==
    /\ ret = "report_file"
    /\ Len(checkpoints) = 2
    /\ LoadFailedAt(1)
    /\ LoadedAt(2)

\* C2: the section of a checkpoint that loaded holds one subsection per prompt,
\* in prompt order, each with the response or the failure reason; every prompt
\* of it was attempted and every checkpoint was processed.
C2_OneSubsectionPerPrompt ==
    ret = "report_file" =>
        LET secs == SplitSections(DiskContent)
            P == Len(benchmark_prompts)
        IN  /\ NumLoads = Len(checkpoints)
            /\ Len(secs) = Len(checkpoints)
            /\ \A k \in 1..Len(checkpoints) :
                  LoadedAt(k) =>
                      /\ Len(secs[k]) = 2 * P + 3
                      /\ secs[k][2].t = "load_time"
                      /\ secs[k][2 * P + 3].t = "sep"
                      /\ \A p \in 1..P :
                            /\ Logged("generate", k, p)
                            /\ secs[k][2 * p + 1].t = "prompt"
                            /\ secs[k][2 * p + 1].idx = p
                            /\ secs[k][2 * p + 1].text = benchmark_prompts[p]
                            /\ Logged("gen_ok", k, p) =>
                                  secs[k][2 * p + 2].t = "response"
                            /\ Logged("gen_fail", k, p) =>
                                  /\ secs[k][2 * p + 2].t = "error"
                                  /\ secs[k][2 * p + 2].text # ""
                            /\ Logged("gen_ok", k, p) \/ Logged("gen_fail", k, p)

\* two checkpoints and two prompts: the first prompt of the first checkpoint
\* failed, the second succeeded, and the second checkpoint loaded too
C2_Witness ==
    /\ ret = "report_file"
    /\ Len(checkpoints) = 2
    /\ Len(benchmark_prompts) = 2
    /\ Logged("gen_fail", 1, 1)
    /\ Logged("gen_ok", 1, 2)
    /\ LoadedAt(2)

\* C3: at most one model handle is resident, and no handle is resident while
\* the next checkpoint's load is attempted.
C3_OneHandleResident ==
    /\ Cardinality(Resident) <= 1
    /\ pc \in {"load_config", "load_weights"} => inference = 0

\* C7: main returns 0 exactly when a report has been produced, and 1 on every
\* fatal failure (no checkpoint root, no valid checkpoint, no prompts) and on
\* interruption.
C7_ExitCode ==
    pc = "exit" =>
        /\ exitCode \in {0, 1}
        /\ exitCode = 0 <=> (ReportComplete /\ ~interrupted)
        /\ interrupted => exitCode = 1
        /\ ~rootExists => exitCode = 1
        /\ discover_checkpoints(rootExists, listing).paths = <<>> => exitCode = 1
        /\ load_prompts(source).prompts = <<>> => exitCode = 1

\* main returned 0 after a run with a failed load and a failed prompt
C7_Witness ==
    /\ pc = "exit"
    /\ exitCode = 0
    /\ \E k \in 1..Len(checkpoints) : LoadFailedAt(k)
    /\ \E k \in 1..Len(checkpoints) : \E p \in 1..Len(benchmark_prompts) :
          Logged("gen_fail", k, p)

\* the sections of the report that are closed by their separator are all on disk
CompleteSectionsOnDisk ==
    LET secs == SplitSections(report)
        disk == SplitSections(DiskContent)
    IN  \A k \in 1..Len(secs) :
            secs[k][Len(secs[k])].t = "sep" => (k <= Len(disk) /\ disk[k] = secs[k])

\* C8: after an interruption no load and no generation is started, and once
\* the run has exited every section completed before it is in the report file.
C8_CleanAbort ==
    /\ [][interrupted => log' = log]_vars
    /\ [](pc = "exit" /\ interrupted =>
              /\ CompleteSectionsOnDisk
              /\ fileOpen = FALSE
              /\ i >= 1 => Len(SplitSections(DiskContent)) >= i - 1)

\* interrupted in the second checkpoint, after the first section was complete
C8_Witness ==
    /\ pc = "exit"
    /\ interrupted
    /\ i = 2
    /\ Logged("load", 2, 0)
    /\ Len(SplitSections(DiskContent)) = 2

\* C9: the run becomes Fatal only before the first checkpoint is processed;
\* a load failure or a generation failure is recorded in the report and the
\* loop that owns it goes on.
C9_FatalOnlyBeforeProcessing ==
    /\ [][(Fatal' /\ ~Fatal) => pc \in {"main", "makedirs", "discover", "import"}]_vars
    /\ [](log # <<>> => ~Fatal)
    /\ [][(log' # log /\ log'[Len(log')].op = "load_fail") =>
            /\ report' = Append(report, Tok("ckpt_error", checkpoints[i], i, 0,
                                            report'[Len(report')].text))
            /\ pc' = "ckpt_end" /\ i' = i /\ ret' = ret /\ fileOpen']_vars
    /\ [][(log' # log /\ log'[Len(log')].op = "gen_fail") =>
            /\ report' = Append(report, Tok("error", checkpoints[i], j, 0,
                                            report'[Len(report')].text))
            /\ pc' = "prompt" /\ j' = j + 1 /\ i' = i /\ ret' = ret /\ fileOpen']_vars

\* the first checkpoint failed to load and the run is at the second one
C9_Witness ==
    /\ pc = "ckpt"
    /\ i = 2
    /\ LoadFailedAt(1)
    /\ ret = "none"

\* the run has returned the report after a load was attempted for every checkpoint
Done == ret = "report_file" /\ NumLoads = Len(checkpoints)

\* C10: when every call returns or raises, a run that has passed scanning
\* reaches Done, having processed every checkpoint.
C10_RunCompletes == (pc = "open") ~> Done

\* Done after a run in which a load and a generation failed
C10_Witness ==
    /\ Done
    /\ pc = "main_ret"
    /\ Len(checkpoints) = 2
    /\ LoadFailedAt(2)
    /\ Logged("gen_fail", 1, 1)

-----------------------------------------------------------------------------
(* The report file.                                                        *)

\* what the file at the report's path holds: until run_benchmark opens it,
\* what was there before; from then on, what has been written through
SinkContent == IF report = <<>> THEN existing ELSE DiskContent

IsPrefix(a, b) == Len(a) <= Len(b) /\ SubSeq(b, 1, Len(a)) = a

\* C12: a crash of the process at any point leaves every checkpoint section
\* that was completed before it in durable storage.
C12_CrashPreservesSections ==
    pc = "crashed" => CompleteSectionsOnDisk

\* C13: the report file only grows: in every step its content before the
\* step is a prefix of its content after the step, so nothing once written
\* is modified or truncated, also not by opening the file.
C13_AppendOnly ==
    [][IsPrefix(SinkContent, SinkContent')]_vars

\* C18: when run_benchmark ends without a report path, no report file was
\* created or written; a report file exists only for runs that reached the
\* processing of checkpoints.
C18_FatalLeavesNoFile ==
    /\ Fatal => (report = <<>> /\ durable = 0 /\ ~fileOpen /\ i = 0)
    /\ report # <<>> => (i >= 1 /\ checkpoints # <<>> /\ benchmark_prompts # <<>>
                          /\ pc \notin {"main", "makedirs", "discover", "import", "open"})

\* the scan found checkpoints, the import of the inference module failed, and
\* main has returned
C18_Witness ==
    /\ pc = "exit"
    /\ ret = "None"
    /\ checkpoints # <<>>
    /\ benchmark_prompts # <<>>
    /\ report = <<>>

-----------------------------------------------------------------------------
(* The decoding engine and the single-shot entry point.                    *)

\* C11: when the tokenizer or the forward pass raises inside a call of
\* generate_completion, the call itself returns a Failure that carries the
\* reason; the error is not propagated to the caller.
C11_EngineReturnsFailure ==
    outcome.reason # "" => outcome.kind = "returned"

\* C14: a request with temperature 0 reaches model.generate with sampling
\* disabled (greedy decoding), never with do_sample = true.
C14_ZeroTemperatureIsGreedy ==
    (request # NoRequest /\ request.temperature = 0) => request.do_sample = FALSE

\* the checkpoint directory, its config file and its weights file all exist
AllFound ==
    /\ checkpoint_path.kind # "none"
    /\ files[checkpoint_path.kind].dir
    /\ files[checkpoint_path.kind].config
    /\ files[checkpoint_path.kind].weights

\* C17: generate_completion returns the decoded text with exactly the
\* prompt's rendering removed from its front: no character of the completion
\* is dropped and none of the prompt remains, also when the rendering of the
\* prompt differs in length from the prompt.
C17_CompletionIsTextMinusRenderedPrompt ==
    outcome.kind = "returned" =>
        outcome.text = SubSeq(generated_text, Len(inputs) + 1, Len(generated_text))

\* C19: a --checkpoint path wins over model name and step number; giving
\* neither is a usage error; a load is attempted only after the directory,
\* the config file and the weights file were all found, and otherwise main
\* returns 1 without loading a model.
C19_PathPrecedenceAndChecks ==
    /\ (pc # "cli" /\ Truthy(args.checkpoint)) =>
          checkpoint_path = ExplicitPath(args.checkpoint.val)
    /\ (pc # "cli" /\ ~Truthy(args.checkpoint)
          /\ Truthy(args.model_name) /\ args.step_number.some) =>
          checkpoint_path =
              build_checkpoint_path(args.model_name.val, args.step_number.val)
    /\ (pc # "cli" /\ ~Truthy(args.checkpoint)
          /\ ~(Truthy(args.model_name) /\ args.step_number.some)) =>
          /\ pc = "exit"
          /\ exitCode = 2
          /\ log = <<>>
          /\ inference = 0
    /\ (log # <<>> \/ inference # 0) => AllFound
    /\ (pc \notin {"cli", "validate"} /\ checkpoint_path.kind # "none" /\ ~AllFound) =>
          /\ pc = "exit"
          /\ exitCode = 1
          /\ log = <<>>
          /\ inference = 0

\* --checkpoint and a model name with a step number were both given, only the
\* --checkpoint path holds a checkpoint, and the model was loaded from it
C19_Witness ==
    /\ Truthy(args.checkpoint)
    /\ Truthy(args.model_name)
    /\ args.step_number.some
    /\ ~files["built"].dir
    /\ LoadedAt(1)
    /\ pc = "exit"
    /\ exitCode = 0

=============================================================================
